---- MODULE Spec2Model ----
(***************************************************************************)
(* ServerConnection of src/client.py: one MCP session with its exit stack, *)
(* its tool cache and its connected flag, driven by connect, list_tools,   *)
(* execute_tool and cleanup.  The server, the transport and the timer of   *)
(* asyncio.wait_for are the environment: their outcomes are the inputs of  *)
(* the actions.                                                            *)
(***************************************************************************)
EXTENDS Integers, Sequences, FiniteSets, TLC

\* ---------------------------------------------------------------- bounds
\* connects whose contexts the exit stack may hold at once (a connect() on a
\* Connection that was not cleaned up stacks its contexts on the earlier ones)
MaxOpen == 2
\* largest value of the retries argument of execute_tool
MaxRetries == 2
\* list requests a behaviour lets fail between two cleanups
MaxListFailures == 1

\* ---------------------------------------------------------------- values
\* Optional[T]: None is the empty sequence, a present value x is <<x>>
None == <<>>
Some(x) == <<x>>

\* a Python value (an argument, a decoded JSON document, a tool result) with
\* its type: t is the type name, v the value; a dict is a function from its
\* keys to such values, a list a sequence of them
PyStr(x) == [t |-> "str", v |-> x]
PyInt(n) == [t |-> "int", v |-> n]
PyDict(d) == [t |-> "dict", v |-> d]
PyList(l) == [t |-> "list", v |-> l]
PyNone == [t |-> "NoneType", v |-> 0]
PyBool(b) == [t |-> "bool", v |-> b]
PyFloat(x) == [t |-> "float", v |-> x]

\* isinstance(x, type): bool is a subclass of int
isinstance(x, type) == x.t = type \/ (x.t = "bool" /\ type = "int")
\* key in d, d[key], and d with d[key] = value, for a dict d
Has(d, key) == key \in DOMAIN d.v
Without(d, key) == PyDict([k \in DOMAIN d.v \ {key} |-> d.v[k]])
With(d, key, value) ==
  PyDict([k \in DOMAIN d.v \cup {key} |-> IF k = key THEN value ELSE d.v[k]])

\* the two context managers a connect enters (client.py 161-169)
sse_client == "sse_client"
ClientSession == "ClientSession"

\* tools as the server lists them (tools_response.tools)
ServerTool(nm) == [name |-> nm, description |-> "d", inputSchema |-> "s"]
Catalogues == { <<ServerTool("upload_blob"), ServerTool("list_blobs")>>, <<>> }
ToolNames == {"upload_blob"}

\* how a release of the exit stack can end
AcloseOutcomes == {"none", "Exception", "CancelledError"}

\* ---------------------------------------------------------------- state
VARIABLES
  session,       \* self.session: None or Some(ClientSession)
  exit_stack,    \* self.exit_stack: the contexts entered and not yet exited
  tools_cache,   \* self._tools_cache: None or Some(listing)
  connected,     \* self.connected
  catalogue,     \* the tools the server would list now
  list_requests, \* number of list requests sent since the last cleanup() call
  list_answers,  \* number of them the server answered
  first_listing, \* the first listing returned since the last cleanup() call
  last,          \* what the caller of the last operation observed
  mcp_tool_names, \* create_mcp_functions.mcp_tool_names
  mcp_functions, \* the callables the last create_mcp_functions() returned
  _cleanup_lock, \* self._cleanup_lock: locked, and the tasks waiting for it
  tasks,         \* the tasks that call cleanup(): where each one is
  bot            \* the bot: user and conversation state, and the turn's locals

vars == <<session, exit_stack, tools_cache, connected, catalogue,
          list_requests, list_answers, first_listing, last,
          mcp_tool_names, mcp_functions, _cleanup_lock, tasks, bot>>

\* the lock of cleanup() and the tasks that use it
locking == <<_cleanup_lock, tasks>>
\* what a discovery leaves in the adapter module
discovered == <<mcp_tool_names, mcp_functions>>

\* asyncio.Lock(): not locked, nobody waiting (client.py 125)
Lock == [locked |-> FALSE, waiters |-> <<>>]

\* the tasks that may call cleanup() on the Connection at the same time
MaxTasks == 2
Tasks == 1..MaxTasks

\* a task that has `calls` cleanup() calls to make, one after the other, and
\* has made none yet; pc is where it is: "ready" between calls, "waiting" in
\* the lock's queue, "releasing" inside the `async with` block
Task(calls) == [pc |-> "ready", calls |-> calls, made |-> 0]

\* The bot module while it is imported (pc "import"; afterwards "idle"
\* between turns, "run" inside the polling loop of a turn and "calls" inside
\* its loop over tool_calls): the user's profile has no name, the
\* conversation has not prompted for it and has no thread (UserProfile,
\* ConversationData); output, traceback, tool_calls and tool_outputs are
\* local names of on_message_activity, the first two unbound when a turn
\* starts; routes records the path each call of tool_calls took.
Bot == [pc |-> "import", name |-> None, prompted_for_user_name |-> FALSE,
        thread |-> FALSE, output |-> None, traceback |-> FALSE,
        tool_calls |-> <<>>, tool_outputs |-> <<>>, routes |-> <<>>]

\* the fields of the Connection as one record
Self == [session |-> session, exit_stack |-> exit_stack,
         tools_cache |-> tools_cache, connected |-> connected]

\* ------------------------------------------------- AsyncExitStack.aclose
RECURSIVE Reverse(_)
Reverse(s) == IF s = <<>> THEN <<>> ELSE Append(Reverse(Tail(s)), Head(s))

\* exit_stack.aclose(): every callback is popped and run, last entered first,
\* also when one of them raises; the error is raised once all have run.  An
\* empty stack has nothing that can fail.
aclose(stack, out) ==
  [stack  |-> <<>>,
   closed |-> Reverse(stack),
   raised |-> IF stack = <<>> THEN "none" ELSE out]

\* ------------------------------------------------------------- cleanup
\* mutant: the handler resets the session although the release failed
cleanup_resets_session_on_error(self, out) ==
  LET r == aclose(self.exit_stack, out) IN
  IF r.raised = "none"
  THEN [self |-> [session |-> None, exit_stack |-> r.stack,
                  tools_cache |-> None, connected |-> FALSE],
        closed |-> r.closed, raised |-> "none", log |-> "info"]
  ELSE [self |-> [self EXCEPT !.exit_stack = r.stack, !.session = None],
        closed |-> r.closed,
        raised |-> IF r.raised = "Exception" THEN "none" ELSE r.raised,
        log |-> IF r.raised = "Exception" THEN "warning" ELSE "none"]

\* mutant: no except clause, the release error reaches the caller
cleanup_without_except(self, out) ==
  LET r == aclose(self.exit_stack, out) IN
  IF r.raised = "none"
  THEN [self |-> [session |-> None, exit_stack |-> r.stack,
                  tools_cache |-> None, connected |-> FALSE],
        closed |-> r.closed, raised |-> "none", log |-> "info"]
  ELSE [self |-> [self EXCEPT !.exit_stack = r.stack],
        closed |-> r.closed, raised |-> r.raised, log |-> "none"]

\* cleanup(): under the lock, release the stack, then reset the three fields;
\* an Exception of the release skips the resets and is logged; a
\* CancelledError (no Exception) passes through the except clause.
cleanup(self, out) ==
  LET r == aclose(self.exit_stack, out) IN
  IF r.raised = "none"
  THEN [self |-> [session |-> None, exit_stack |-> r.stack,
                  tools_cache |-> None, connected |-> FALSE],
        closed |-> r.closed, raised |-> "none", log |-> "info"]
  ELSE [self |-> [self EXCEPT !.exit_stack = r.stack],
        closed |-> r.closed,
        raised |-> IF r.raised = "Exception" THEN "none" ELSE r.raised,
        log |-> IF r.raised = "Exception" THEN "warning" ELSE "none"]

\* ------------------------------------------------------------- connect
\* The steps of _connect and how each can end.  A timeout of wait_for cancels
\* _connect at the await it is suspended in.
ConnectSteps == {"transport", "session", "initialize"}
ConnectOutcomes ==
  {[at |-> "done", how |-> "ok"]}
  \cup {[at |-> a, how |-> h] : a \in ConnectSteps, h \in {"Exception", "timeout"}}

\* the contexts _connect has pushed on the stack when it ends with o: a
\* context whose entering failed or was cancelled is not pushed
entered(o) ==
  IF o.at = "transport" THEN <<>>
  ELSE IF o.at = "session" THEN <<sse_client>>
  ELSE <<sse_client, ClientSession>>

\* _connect(): enter the transport, enter the session, initialize, store the
\* session; an Exception runs cleanup() and is raised again; a cancellation is
\* no Exception and leaves without cleanup.  out1 is how the release inside
\* that cleanup ends (CancelledError: the timeout fires during it).
_connect(self, o, out1) ==
  LET pushed == [self EXCEPT !.exit_stack = self.exit_stack \o entered(o)] IN
  IF o.how = "ok"
  THEN [self |-> [pushed EXCEPT !.session = Some(ClientSession)],
        closed |-> <<>>, raised |-> "none", cleanups |-> <<>>]
  ELSE IF o.how = "Exception"
  THEN LET c == cleanup(pushed, out1) IN
       [self |-> c.self, closed |-> c.closed,
        raised |-> IF c.raised = "CancelledError" THEN "CancelledError" ELSE "Exception",
        cleanups |-> <<c>>]
  ELSE [self |-> pushed, closed |-> <<>>, raised |-> "CancelledError",
        cleanups |-> <<>>]

\* mutant: connected is set before _connect is awaited
connect_sets_connected_first(self, o, out1, out2) ==
  LET r == _connect([self EXCEPT !.connected = TRUE], o, out1) IN
  IF r.raised = "none"
  THEN [self |-> r.self, closed |-> r.closed,
        raised |-> "none", result |-> Some(TRUE), cleanups |-> r.cleanups]
  ELSE LET c == cleanup(r.self, out2) IN
       [self |-> c.self, closed |-> r.closed \o c.closed,
        raised |-> c.raised,
        result |-> IF c.raised = "none" THEN Some(FALSE) ELSE None,
        cleanups |-> Append(r.cleanups, c)]

\* connect(timeout): wait_for(_connect); on success set connected and return
\* True; on TimeoutError (the cancelled _connect) or any Exception run
\* cleanup() and return False.  out2 is how the release inside that cleanup
\* ends; it runs outside wait_for, so no timeout cancels it.
connect(self, o, out1, out2) ==
  LET r == _connect(self, o, out1) IN
  IF r.raised = "none"
  THEN [self |-> [r.self EXCEPT !.connected = TRUE], closed |-> r.closed,
        raised |-> "none", result |-> Some(TRUE), cleanups |-> r.cleanups]
  ELSE LET c == cleanup(r.self, out2) IN
       [self |-> c.self, closed |-> r.closed \o c.closed,
        raised |-> c.raised,
        result |-> IF c.raised = "none" THEN Some(FALSE) ELSE None,
        cleanups |-> Append(r.cleanups, c)]

\* ---------------------------------------------------------- list_tools
\* the list comprehension of list_tools: one cache entry per listed tool, in
\* the order of the response
ToCache(tools) ==
  [i \in 1..Len(tools) |->
     [name |-> tools[i].name, description |-> tools[i].description,
      input_schema |-> tools[i].inputSchema]]

\* how session.list_tools() can end
ListOutcomes == {"ok", "Exception"}

\* mutant: the cache is not consulted, every call asks the server
list_tools_always_fetches(self, cat, lo) ==
  IF self.session = None
  THEN [self |-> self, raised |-> "not_connected", result |-> None, requests |-> <<>>]
  ELSE IF lo = "Exception"
  THEN [self |-> self, raised |-> "list_failed", result |-> None,
        requests |-> <<"Exception">>]
  ELSE [self |-> [self EXCEPT !.tools_cache = Some(ToCache(cat))],
        raised |-> "none", result |-> Some(ToCache(cat)), requests |-> <<"ok">>]

\* mutant: no check of the session before the request
list_tools_without_guard(self, cat, lo) ==
  IF self.session = None
  THEN [self |-> self, raised |-> "AttributeError", result |-> None, requests |-> <<>>]
  ELSE IF self.tools_cache = None
  THEN IF lo = "Exception"
       THEN [self |-> self, raised |-> "list_failed", result |-> None,
             requests |-> <<"Exception">>]
       ELSE [self |-> [self EXCEPT !.tools_cache = Some(ToCache(cat))],
             raised |-> "none", result |-> Some(ToCache(cat)), requests |-> <<"ok">>]
  ELSE [self |-> self, raised |-> "none", result |-> self.tools_cache,
        requests |-> <<>>]

\* list_tools(): RuntimeError without a session; with an absent cache one
\* request to the server (lo: how it ends), whose answer fills the cache, and
\* whose exception passes to the caller; the cache is returned.
\* requests: the list requests sent, each with how it ended.
list_tools(self, cat, lo) ==
  IF self.session = None
  THEN [self |-> self, raised |-> "not_connected", result |-> None, requests |-> <<>>]
  ELSE IF self.tools_cache = None
  THEN IF lo = "Exception"
       THEN [self |-> self, raised |-> "list_failed", result |-> None,
             requests |-> <<"Exception">>]
       ELSE [self |-> [self EXCEPT !.tools_cache = Some(ToCache(cat))],
             raised |-> "none", result |-> Some(ToCache(cat)), requests |-> <<"ok">>]
  ELSE [self |-> self, raised |-> "none", result |-> self.tools_cache,
        requests |-> <<>>]

\* -------------------------------------------------------- execute_tool
\* what session.call_tool can do: raise, answer with content whose first
\* element has a text, answer with empty content, answer with no response
\* object, or answer with content whose first element has no text attribute
Texts == {"{\"a\": 1}", "[\"a\"]", "done"}
Answers ==
  {[kind |-> "raise", text |-> ""], [kind |-> "empty", text |-> ""],
   [kind |-> "none", text |-> ""], [kind |-> "no_text", text |-> ""]}
  \cup {[kind |-> "content", text |-> t] : t \in Texts}

\* json.loads on the texts of the model: ok is false for JSONDecodeError
json_loads(t) ==
  IF t = "{\"a\": 1}" THEN [ok |-> TRUE, value |-> PyDict([a |-> PyInt(1)])]
  ELSE IF t = "[\"a\"]" THEN [ok |-> TRUE, value |-> PyList(<<PyStr("a")>>)]
  ELSE [ok |-> FALSE, value |-> PyNone]

\* mutant: text that is no JSON document is an error of the attempt
raises_on_plain_text(ans) ==
  \/ ans.kind \in {"raise", "no_text"}
  \/ ans.kind = "content" /\ ~json_loads(ans.text).ok

\* lines 249-255: the value returned for an answer of call_tool
tool_result(ans) ==
  IF ans.kind = "content"
  THEN IF json_loads(ans.text).ok THEN json_loads(ans.text).value
       ELSE PyDict([text |-> PyStr(ans.text)])
  ELSE PyDict([error |-> PyStr("No content received from tool")])

\* mutant: a response without content is treated as a failed attempt
raises_on_empty(ans) == ans.kind \in {"raise", "no_text", "empty", "none"}

\* an answer inside the try block raises: call_tool itself, or the read of
\* content[0].text
raises(ans) == ans.kind \in {"raise", "no_text"}

\* mutant: one attempt fewer
loop_condition_strict(attempt, retries) == attempt < retries

\* line 242: while attempt <= retries
loop_condition(attempt, retries) == attempt <= retries

\* line 260: if attempt <= retries, sleep and go round again, else raise
retry_condition(attempt, retries) == attempt <= retries

\* mutant: the exponent is the attempt number
backoff_off_by_one(retry_delay, attempt) == retry_delay * (2 ^ attempt)

\* line 261: delay = retry_delay * (2 ** (attempt - 1))
backoff(retry_delay, attempt) == retry_delay * (2 ^ (attempt - 1))

\* mutant: the exception of the first failed attempt is kept
store_exception_keeps_first(last_exception, e) ==
  IF last_exception = 0 THEN e ELSE last_exception

\* line 258: last_exception = e
store_exception(last_exception, e) == e

\* lines 239-272: the retry loop.  attempt counts the failed calls, calls the
\* requests sent, delays the sleeps in order, last_exception the number of the
\* call whose exception was stored last (0: none).
RECURSIVE retry_loop(_, _, _, _, _, _, _, _)
retry_loop(tool_name, retries, retry_delay, answers, attempt, calls, delays, last_exception) ==
  IF ~loop_condition(attempt, retries)
  THEN [raised |-> "none", result |-> None, calls |-> calls, delays |-> delays,
        cause |-> last_exception, names |-> ""]
  ELSE LET ans == answers[calls + 1] IN
       IF ~raises(ans)
       THEN [raised |-> "none", result |-> Some(tool_result(ans)),
             calls |-> calls + 1, delays |-> delays, cause |-> last_exception,
             names |-> ""]
       ELSE IF retry_condition(attempt + 1, retries)
       THEN retry_loop(tool_name, retries, retry_delay, answers, attempt + 1,
                       calls + 1,
                       Append(delays, backoff(retry_delay, attempt + 1)),
                       store_exception(last_exception, calls + 1))
       ELSE [raised |-> "execution_failed", result |-> None, calls |-> calls + 1,
             delays |-> delays,
             cause |-> store_exception(last_exception, calls + 1),
             names |-> tool_name]

\* the names of a listing
Names(tools) == {tools[i].name : i \in 1..Len(tools)}

\* mutant: the name is checked after the call instead of before it
execute_tool_checks_late(self, cat, lo, tool_name, retries, retry_delay, answers) ==
  IF self.session = None
  THEN [self |-> self, raised |-> "not_connected", result |-> None,
        requests |-> <<>>, calls |-> 0, delays |-> <<>>, cause |-> 0,
             names |-> ""]
  ELSE LET l == list_tools(self, cat, lo) IN
       IF l.raised # "none"
       THEN [self |-> l.self, raised |-> l.raised, result |-> None,
             requests |-> l.requests, calls |-> 0, delays |-> <<>>, cause |-> 0,
             names |-> ""]
       ELSE LET r == retry_loop(tool_name, retries, retry_delay, answers, 0, 0, <<>>, 0) IN
            IF tool_name \notin Names(l.result[1])
            THEN [self |-> l.self, raised |-> "tool_not_found", result |-> None,
                  requests |-> l.requests, calls |-> r.calls, delays |-> r.delays,
                  cause |-> 0, names |-> tool_name]
            ELSE [self |-> l.self, raised |-> r.raised, result |-> r.result,
                  requests |-> l.requests, calls |-> r.calls, delays |-> r.delays,
                  cause |-> r.cause, names |-> r.names]

\* execute_tool(): RuntimeError without a session; the listing (cached or
\* fetched); ValueError for a name it does not hold; then the retry loop.
execute_tool(self, cat, lo, tool_name, retries, retry_delay, answers) ==
  IF self.session = None
  THEN [self |-> self, raised |-> "not_connected", result |-> None,
        requests |-> <<>>, calls |-> 0, delays |-> <<>>, cause |-> 0,
             names |-> ""]
  ELSE LET l == list_tools(self, cat, lo) IN
       IF l.raised # "none"
       THEN [self |-> l.self, raised |-> l.raised, result |-> None,
             requests |-> l.requests, calls |-> 0, delays |-> <<>>, cause |-> 0,
             names |-> ""]
       ELSE IF tool_name \notin Names(l.result[1])
       THEN [self |-> l.self, raised |-> "tool_not_found", result |-> None,
             requests |-> l.requests, calls |-> 0, delays |-> <<>>, cause |-> 0,
             names |-> tool_name]
       ELSE LET r == retry_loop(tool_name, retries, retry_delay, answers, 0, 0, <<>>, 0) IN
            [self |-> l.self, raised |-> r.raised, result |-> r.result,
             requests |-> l.requests, calls |-> r.calls, delays |-> r.delays,
             cause |-> r.cause, names |-> r.names]

\* ------------------------------------------------------------- actions
\* what the caller of an operation observes; the fields an operation does not
\* have keep these values
Observation ==
  [op |-> "none", raised |-> "none", result |-> None, args |-> None,
   requests |-> <<>>, calls |-> 0, delays |-> <<>>, cause |-> 0,
   names |-> "", script |-> <<>>, teardown |-> <<>>,
   passed |-> None, dispatched |-> None, payload |-> None, logged |-> "none",
   executed |-> "", routes |-> <<>>, submitted |-> None]

\* the log line of each cleanup() run of an operation
Logs(cleanups) == [i \in 1..Len(cleanups) |-> cleanups[i].log]

Count(requests, how) == Cardinality({i \in 1..Len(requests) : requests[i] = how})

\* a list request may fail while the behaviour has failures left
ListOutcomesNow ==
  IF session # None /\ tools_cache = None
       /\ list_requests - list_answers < MaxListFailures
  THEN ListOutcomes ELSE {"ok"}

Init ==
  /\ session = None
  /\ exit_stack = <<>>
  /\ tools_cache = None
  /\ connected = FALSE
  /\ catalogue \in Catalogues
  /\ list_requests = 0
  /\ list_answers = 0
  /\ first_listing = None
  /\ last = Observation
  /\ mcp_tool_names = <<>>
  /\ mcp_functions = <<>>
  /\ _cleanup_lock = Lock
  /\ tasks = [t \in Tasks |-> Task(0)]
  /\ bot = Bot

\* await conn.connect()
Connect ==
  /\ Len(exit_stack) < 2 * MaxOpen
  /\ \E o \in ConnectOutcomes, out1 \in AcloseOutcomes, out2 \in {"none", "Exception"} :
       \E r \in {connect(Self, o, out1, out2)} :
         /\ session' = r.self.session
         /\ exit_stack' = r.self.exit_stack
         /\ tools_cache' = r.self.tools_cache
         /\ connected' = r.self.connected
         /\ list_requests' = IF r.cleanups = <<>> THEN list_requests ELSE 0
         /\ list_answers' = IF r.cleanups = <<>> THEN list_answers ELSE 0
         /\ first_listing' = IF r.cleanups = <<>> THEN first_listing ELSE None
         /\ last' = [Observation EXCEPT !.op = "connect", !.raised = r.raised,
                       !.result = r.result, !.args = Some(o),
                       !.teardown = Logs(r.cleanups)]
         /\ UNCHANGED <<catalogue, discovered, locking, bot>>

\* await conn.cleanup()
Cleanup ==
  \E out \in {"none", "Exception"} :
    \E c \in {cleanup(Self, out)} :
      /\ session' = c.self.session
      /\ exit_stack' = c.self.exit_stack
      /\ tools_cache' = c.self.tools_cache
      /\ connected' = c.self.connected
      /\ list_requests' = 0
      /\ list_answers' = 0
      /\ first_listing' = None
      /\ last' = [Observation EXCEPT !.op = "cleanup", !.raised = c.raised,
                    !.teardown = <<c.log>>]
      /\ UNCHANGED <<catalogue, discovered, locking, bot>>

\* await conn.list_tools()
ListTools ==
  \E lo \in ListOutcomesNow :
    \E l \in {list_tools(Self, catalogue, lo)} :
      /\ session' = l.self.session
      /\ exit_stack' = l.self.exit_stack
      /\ tools_cache' = l.self.tools_cache
      /\ connected' = l.self.connected
      /\ list_requests' = list_requests + Len(l.requests)
      /\ list_answers' = list_answers + Count(l.requests, "ok")
      /\ first_listing' = IF first_listing = None /\ l.raised = "none"
                          THEN l.result ELSE first_listing
      /\ last' = [Observation EXCEPT !.op = "list_tools", !.raised = l.raised,
                    !.result = l.result, !.requests = l.requests]
      /\ UNCHANGED <<catalogue, discovered, locking, bot>>

\* the values of retry_delay the callers of the model pass
RetryDelays == {1, 3}
CalledNames == ToolNames \cup {"unknown_tool"}

\* the script of the server for one execute_tool call: call_tool raises for
\* the first `fails` calls, gives `final` to the next one, and raises for any
\* further call
Script(fails, final) ==
  [i \in 1..(MaxRetries + 2) |->
     IF i = fails + 1 THEN final ELSE [kind |-> "raise", text |-> ""]]

\* the scripts of a call with `retries`: those that differ within the
\* retries + 1 calls it can send
Scripts(retries) ==
  {Script(fails, final) :
     fails \in 0..(IF retries < 0 THEN 0 ELSE retries), final \in Answers}

\* await conn.execute_tool(tool_name, arguments, retries, retry_delay)
ExecuteTool ==
  \E lo \in ListOutcomesNow, tool_name \in CalledNames,
     retries \in -1..MaxRetries, retry_delay \in RetryDelays :
    \E answers \in Scripts(retries) :
      \E e \in {execute_tool(Self, catalogue, lo, tool_name, retries,
                             retry_delay, answers)} :
         /\ session' = e.self.session
         /\ exit_stack' = e.self.exit_stack
         /\ tools_cache' = e.self.tools_cache
         /\ connected' = e.self.connected
         /\ list_requests' = list_requests + Len(e.requests)
         /\ list_answers' = list_answers + Count(e.requests, "ok")
         /\ first_listing' = IF first_listing = None /\ e.requests = <<"ok">>
                             THEN e.self.tools_cache ELSE first_listing
         /\ last' = [Observation EXCEPT !.op = "execute_tool",
                       !.raised = e.raised, !.result = e.result,
                       !.args = Some([tool_name |-> tool_name, retries |-> retries,
                                      retry_delay |-> retry_delay]),
                       !.requests = e.requests, !.calls = e.calls,
                       !.delays = e.delays, !.cause = e.cause,
                       !.names = e.names, !.script = answers]
         /\ UNCHANGED <<catalogue, discovered, locking, bot>>

\* the server's set of tools changes
ServerChange ==
  /\ \E c \in Catalogues \ {catalogue} : catalogue' = c
  /\ last' = [Observation EXCEPT !.op = "server"]
  /\ UNCHANGED <<session, exit_stack, tools_cache, connected,
                 list_requests, list_answers, first_listing, discovered, locking, bot>>

Next == Connect \/ Cleanup \/ ListTools \/ ExecuteTool \/ ServerChange

Spec == Init /\ [][Next]_vars

\* -------------------------------------------------------------- claims
RECURSIVE SumSeq(_)
SumSeq(s) == IF s = <<>> THEN 0 ELSE Head(s) + SumSeq(Tail(s))

\* the last operation was execute_tool on a Connection with a session, for a
\* name its listing holds
ExecutedKnownTool ==
  /\ last.op = "execute_tool"
  /\ session # None
  /\ tools_cache # None
  /\ last.args[1].tool_name \in Names(tools_cache[1])

\* the last operation was execute_tool on a Connection with a session, for a
\* name its listing does not hold
ExecutedUnknownTool ==
  /\ last.op = "execute_tool"
  /\ session # None
  /\ tools_cache # None
  /\ last.args[1].tool_name \notin Names(tools_cache[1])

\* call_tool raises for each of the first n calls of the last execute_tool
FirstCallsRaise(n) == \A i \in 1..n : last.script[i].kind = "raise"

\* C1: when every call_tool of an execute_tool with retries = R >= 0 for a
\* known tool raises, execute_tool raises the exhaustion error after exactly
\* R + 1 calls and exactly R sleeps, whose sum is retry_delay * (2^R - 1).
C1_ExhaustionAfterRPlusOneAttempts ==
  (/\ ExecutedKnownTool
   /\ last.args[1].retries >= 0
   /\ FirstCallsRaise(last.args[1].retries + 1))
  => /\ last.raised = "execution_failed"
     /\ last.calls = last.args[1].retries + 1
     /\ Len(last.delays) = last.args[1].retries
     /\ SumSeq(last.delays)
          = last.args[1].retry_delay * (2 ^ last.args[1].retries - 1)

C1_Witness ==
  /\ ExecutedKnownTool
  /\ last.args[1].retries = 2
  /\ last.args[1].retry_delay = 3
  /\ FirstCallsRaise(3)
  /\ last.raised = "execution_failed"
  /\ last.calls = 3
  /\ last.delays = <<3, 6>>

\* C2: when call_tool raises N times and then answers with content, an
\* execute_tool with retries >= N returns the result of that answer after
\* exactly N + 1 calls, and the k-th sleep is retry_delay * 2^(k-1), k = 1..N.
C2_BackoffUntilSuccess ==
  \A n \in 0..MaxRetries :
    (/\ ExecutedKnownTool
     /\ last.args[1].retries >= n
     /\ FirstCallsRaise(n)
     /\ last.script[n + 1].kind = "content")
    => /\ last.raised = "none"
       /\ last.result = Some(IF last.script[n + 1].text = "done"
                             THEN PyDict([text |-> PyStr("done")])
                             ELSE IF last.script[n + 1].text = "[\"a\"]"
                             THEN PyList(<<PyStr("a")>>)
                             ELSE PyDict([a |-> PyInt(1)]))
       /\ last.calls = n + 1
       /\ Len(last.delays) = n
       /\ \A k \in 1..n :
            last.delays[k] = last.args[1].retry_delay * (2 ^ (k - 1))

C2_Witness ==
  /\ ExecutedKnownTool
  /\ last.args[1].retries = 2
  /\ last.args[1].retry_delay = 3
  /\ FirstCallsRaise(2)
  /\ last.script[3].kind = "content"
  /\ last.raised = "none"
  /\ last.calls = 3
  /\ last.delays = <<3, 6>>

\* C3 (as stated): after every cleanup() call, also one whose release of the
\* exit stack failed, connected is false, session is null and the cache absent.
C3_CleanupAlwaysResets ==
  last.op = "cleanup" => (session = None /\ tools_cache = None /\ ~connected)

\* C4: whenever an operation has returned or raised, session is non-null iff
\* connected is true.
C4_SessionIffConnected == (session # None) <=> connected

C4_Witness ==
  /\ last.op = "cleanup"
  /\ last.teardown = <<"warning">>
  /\ session # None
  /\ connected

\* C5 (as stated): a connect() that fails or times out at any step returns
\* False without raising and leaves no context on the exit stack, session null
\* and connected false.
C5_FailedConnectCleansUp ==
  (last.op = "connect" /\ last.args[1].how # "ok")
  => /\ last.raised = "none"
     /\ last.result = Some(FALSE)
     /\ exit_stack = <<>>
     /\ session = None
     /\ ~connected

C7_CleanupIdempotent ==
  [][(last.op = "cleanup" /\ last'.op = "cleanup")
       => (/\ Self' = Self
           /\ session = None /\ tools_cache = None /\ ~connected
           /\ exit_stack = <<>>)]_vars

\* C8 (as stated): between two cleanups at most one list request is sent.
C8_AtMostOneListRequest == list_requests <= 1

\* C8 (amended): between two cleanups the server answers at most one list
\* request; the listing it fills the cache with has the server's tools in the
\* server's order; every list_tools() that returns gives the first listing
\* returned since the last cleanup.
C8_AtMostOneListAnswer ==
  /\ list_answers <= 1
  /\ (last.op \in {"list_tools", "execute_tool"} /\ last.requests = <<"ok">>)
       => /\ tools_cache # None
          /\ Len(tools_cache[1]) = Len(catalogue)
          /\ \A i \in 1..Len(catalogue) :
               tools_cache[1][i].name = catalogue[i].name
  /\ (last.op = "list_tools" /\ last.raised = "none")
       => (last.result # None /\ last.result = first_listing)

C8_Witness ==
  /\ last.op = "list_tools"
  /\ last.raised = "none"
  /\ last.requests = <<>>
  /\ list_requests = 2
  /\ list_answers = 1
  /\ Len(last.result[1]) = 2
  /\ catalogue = <<>>

\* C9: execute_tool for a name that the listing does not hold raises the
\* tool-not-found error and sends no call_tool request and sleeps never,
\* whatever retries is.
C9_UnknownToolNotCalled ==
  ExecutedUnknownTool
  => /\ last.raised = "tool_not_found"
     /\ last.calls = 0
     /\ last.delays = <<>>

C9_Witness ==
  /\ ExecutedUnknownTool
  /\ last.args[1].retries = 2
  /\ last.script[1].kind = "content"
  /\ last.raised = "tool_not_found"
  /\ last.calls = 0

AnsweredAt(n) ==
  /\ ExecutedKnownTool
  /\ last.args[1].retries >= n
  /\ FirstCallsRaise(n)

\* C11: when call_tool answers with a response without content, or with no
\* response object, execute_tool returns the mapping {error: message} on that
\* attempt: nothing is raised, no further call is sent and no further sleep made.
C11_EmptyContentGivesErrorMarker ==
  \A n \in 0..MaxRetries :
    (AnsweredAt(n) /\ last.script[n + 1].kind \in {"empty", "none"})
    => /\ last.raised = "none"
       /\ last.result = Some(PyDict([error |-> PyStr("No content received from tool")]))
       /\ last.calls = n + 1
       /\ Len(last.delays) = n

C11_Witness ==
  /\ AnsweredAt(1)
  /\ last.script[2].kind = "none"
  /\ last.result = Some(PyDict([error |-> PyStr("No content received from tool")]))
  /\ last.calls = 2

\* C12: when call_tool answers with content, execute_tool returns the decoded
\* JSON document of the first element's text when the text is one, and
\* otherwise {text: raw text}; text that is no JSON document raises nothing
\* and causes no further call.
C12_ContentDecodedOrWrapped ==
  \A n \in 0..MaxRetries :
    (AnsweredAt(n) /\ last.script[n + 1].kind = "content")
    => /\ last.raised = "none"
       /\ last.calls = n + 1
       /\ Len(last.delays) = n
       /\ last.script[n + 1].text = "{\"a\": 1}" => last.result = Some(PyDict([a |-> PyInt(1)]))
       /\ last.script[n + 1].text = "[\"a\"]"
            => last.result = Some(PyList(<<PyStr("a")>>))
       /\ last.script[n + 1].text = "done"
            => last.result = Some(PyDict([text |-> PyStr("done")]))

C12_Witness ==
  /\ AnsweredAt(0)
  /\ last.args[1].retries = 2
  /\ last.script[1] = [kind |-> "content", text |-> "done"]
  /\ last.result = Some(PyDict([text |-> PyStr("done")]))
  /\ last.calls = 1
  /\ last.delays = <<>>

\* C13: the error execute_tool raises when the retries are used up names the
\* tool and has the exception of the last call as its cause; while an attempt
\* is left, a failed call raises nothing to the caller.
C13_ExhaustionWrapsLastFailure ==
  /\ (last.op = "execute_tool" /\ last.raised = "execution_failed")
     => /\ last.names = last.args[1].tool_name
        /\ last.cause = last.calls
        /\ last.calls = last.args[1].retries + 1
  /\ \A n \in 1..MaxRetries :
       (AnsweredAt(n) /\ last.script[n + 1].kind \in {"content", "empty", "none"})
       => last.raised = "none"

C13_Witness ==
  /\ ExecutedKnownTool
  /\ last.args[1].retries = 2
  /\ last.raised = "execution_failed"
  /\ last.names = "upload_blob"
  /\ last.cause = 3
  /\ last.script[3].kind = "no_text"

\* C14 (as stated): what list_tools() and execute_tool() raise is one of the
\* not-connected, tool-not-found, validation-failed and execution-failed
\* errors, also when the list request inside execute_tool fails.
C14_FourFailureKinds ==
  last.op \in {"list_tools", "execute_tool"}
  => last.raised \in {"none", "not_connected", "tool_not_found",
                      "validation_failed", "execution_failed"}


(***************************************************************************)
(* The callers of ServerConnection: the callable create_mcp_functions      *)
(* builds for a tool (src/mcp_tools.py), execute_mcp_tool_directly and     *)
(* execute_mcp_tool_async (src/mcp_direct.py), the branch of the bot that  *)
(* routes a required tool call to them (src/bots/state_management_bot.py)  *)
(* and the discovery step fetch_tools.  Each of them constructs its own    *)
(* ServerConnection.                                                       *)
(***************************************************************************)
\* ------------------------------------------------------ argument values
\* the strings a kwargs field holds in the model
text_a == "{\"a\": 1}"
text_kwargs_empty == "{\"kwargs\": \"\"}"
text_kwargs_a == "{\"kwargs\": \"{\\\"a\\\": 1}\"}"
text_kwargs_malformed == "{\"kwargs\": \"not-json\"}"
text_kwargs_kwargs_empty == "{\"kwargs\": \"{\\\"kwargs\\\": \\\"\\\"}\"}"
text_text == "{\"text\": \"hi\"}"

\* json.loads on these strings: ok is false for JSONDecodeError
json_loads_arguments(x) ==
  CASE x = text_a -> [ok |-> TRUE, value |-> PyDict([a |-> PyInt(1)])]
    [] x = text_kwargs_empty -> [ok |-> TRUE, value |-> PyDict([kwargs |-> PyStr("")])]
    [] x = text_kwargs_a -> [ok |-> TRUE, value |-> PyDict([kwargs |-> PyStr(text_a)])]
    [] x = text_kwargs_malformed
         -> [ok |-> TRUE, value |-> PyDict([kwargs |-> PyStr("not-json")])]
    [] x = text_kwargs_kwargs_empty
         -> [ok |-> TRUE, value |-> PyDict([kwargs |-> PyStr(text_kwargs_empty)])]
    [] x = text_text -> [ok |-> TRUE, value |-> PyDict([text |-> PyStr("hi")])]
    [] x = "3" -> [ok |-> TRUE, value |-> PyInt(3)]
    [] OTHER -> [ok |-> FALSE, value |-> PyNone]

\* the argument bundles of a tool call: flat, wrapped in a kwargs string
\* (empty, JSON, no JSON, wrapped twice and three times), with a kwargs field
\* that is no string, and with the text, value and content fields
Bundles ==
  {PyDict(<<>>), PyDict([a |-> PyInt(1)]),
   PyDict([kwargs |-> PyStr("")]), PyDict([kwargs |-> PyStr(text_a)]),
   PyDict([kwargs |-> PyStr("not-json")]), PyDict([kwargs |-> PyStr("3")]),
   PyDict([kwargs |-> PyStr(text_kwargs_empty)]),
   PyDict([kwargs |-> PyStr(text_kwargs_a)]),
   PyDict([kwargs |-> PyStr(text_kwargs_malformed)]),
   PyDict([kwargs |-> PyStr(text_kwargs_kwargs_empty)]),
   PyDict([kwargs |-> PyDict([a |-> PyInt(1)])]),
   PyDict([kwargs |-> PyDict([kwargs |-> PyStr("")])]),
   PyDict([kwargs |-> PyNone]),
   PyDict([text |-> PyStr("hi")]), PyDict([value |-> PyStr("v")]),
   PyDict([text |-> PyStr("hi"), value |-> PyStr("v")]),
   PyDict([content |-> PyStr("c"), text |-> PyStr("hi")]),
   PyDict([kwargs |-> PyStr(text_text)]),
   PyDict([kwargs |-> PyStr(text_a), text |-> PyStr("hi")])}

\* ------------------------------------------------ argument normalization
\* mutant: a kwargs string that is no JSON gives the empty mapping
direct_args_to_use_drops_malformed(arguments) ==
  IF isinstance(arguments, "dict") /\ Has(arguments, "kwargs")
       /\ isinstance(arguments.v["kwargs"], "str")
  THEN IF json_loads_arguments(arguments.v["kwargs"].v).ok
       THEN json_loads_arguments(arguments.v["kwargs"].v).value
       ELSE PyDict(<<>>)
  ELSE arguments

\* execute_mcp_tool_directly, lines 37-53: args_to_use of the arguments
direct_args_to_use(arguments) ==
  IF isinstance(arguments, "dict")
  THEN IF Has(arguments, "kwargs")
       THEN IF isinstance(arguments.v["kwargs"], "str")
            THEN IF arguments.v["kwargs"].v = ""
                 THEN PyDict(<<>>)
                 ELSE IF json_loads_arguments(arguments.v["kwargs"].v).ok
                 THEN json_loads_arguments(arguments.v["kwargs"].v).value
                 ELSE PyDict([value |-> arguments.v["kwargs"]])
            ELSE arguments.v["kwargs"]
       ELSE arguments
  ELSE PyDict(<<>>)

\* tool_func, lines 65-78: args_to_use of the parameters kwargs and **args
first_stage(kwargs, args) ==
  IF kwargs # PyNone /\ isinstance(kwargs, "str")
  THEN IF kwargs.v = ""
       THEN PyDict(<<>>)
       ELSE IF json_loads_arguments(kwargs.v).ok
       THEN json_loads_arguments(kwargs.v).value
       ELSE PyDict([value |-> kwargs])
  ELSE IF kwargs # PyNone
  THEN kwargs
  ELSE args

\* mutant: a nested kwargs string that is no JSON is wrapped as {value: string}
second_stage_wraps_malformed(args_to_use) ==
  IF isinstance(args_to_use, "dict") /\ Has(args_to_use, "kwargs")
       /\ isinstance(args_to_use.v["kwargs"], "str")
  THEN IF args_to_use.v["kwargs"].v = ""
       THEN PyDict(<<>>)
       ELSE IF json_loads_arguments(args_to_use.v["kwargs"].v).ok
       THEN json_loads_arguments(args_to_use.v["kwargs"].v).value
       ELSE PyDict([value |-> args_to_use.v["kwargs"]])
  ELSE args_to_use

\* tool_func, lines 80-91: a mapping with a string kwargs field is unwrapped
\* once more; a string that is no JSON leaves args_to_use as it is (pass)
second_stage(args_to_use) ==
  IF isinstance(args_to_use, "dict") /\ Has(args_to_use, "kwargs")
       /\ isinstance(args_to_use.v["kwargs"], "str")
  THEN IF args_to_use.v["kwargs"].v = ""
       THEN PyDict(<<>>)
       ELSE IF json_loads_arguments(args_to_use.v["kwargs"].v).ok
       THEN json_loads_arguments(args_to_use.v["kwargs"].v).value
       ELSE args_to_use
  ELSE args_to_use

\* tool_func(**arguments): the kwargs field binds the parameter kwargs
\* (default None), the other fields are collected in args
tool_func_args_to_use(arguments) ==
  LET kwargs == IF Has(arguments, "kwargs") THEN arguments.v["kwargs"] ELSE PyNone
      args == Without(arguments, "kwargs")
  IN second_stage(first_stage(kwargs, args))

\* the bot, lines 193-203: upload_blob without content takes its content from
\* the text field, else from the value field, of the arguments as received
upload_blob_content(function_name, arguments) ==
  IF function_name = "upload_blob" /\ ~Has(arguments, "content")
  THEN IF Has(arguments, "text")
       THEN With(arguments, "content", arguments.v["text"])
       ELSE IF Has(arguments, "value")
       THEN With(arguments, "content", arguments.v["value"])
       ELSE arguments
  ELSE arguments

\* ---------------------------------------------------------- invocations
\* the defaults of execute_tool's retries and retry_delay parameters
DefaultRetries == 3
DefaultRetryDelay == 1

\* ServerConnection(config.mcp_server_url)
Fresh == [session |-> None, exit_stack |-> <<>>, tools_cache |-> None,
          connected |-> FALSE]

\* What the server and the transport do during one discovery step: how
\* connect ends (o), how the one release of the exit stack that holds a
\* context ends (out), and how the list request ends (lo).  A step whose
\* connect fails sends no list request.
DiscoveryEnvs ==
  [o : ConnectOutcomes \ {[at |-> "done", how |-> "ok"]},
   out : {"none", "Exception"}, lo : {"ok"}]
  \cup [o : {[at |-> "done", how |-> "ok"]}, out : {"none", "Exception"},
        lo : ListOutcomes]

\* The same for the invocation of a tool, with the answers of call_tool.  An
\* invocation whose connect or list request fails calls no tool.
InvocationEnvs ==
  {[o |-> d.o, out |-> d.out, lo |-> d.lo, answers |-> s] :
     d \in {x \in DiscoveryEnvs : x.o.how = "ok" /\ x.lo = "ok"},
     s \in Scripts(DefaultRetries)}
  \cup {[o |-> d.o, out |-> d.out, lo |-> d.lo,
         answers |-> Script(0, [kind |-> "raise", text |-> ""])] :
          d \in {x \in DiscoveryEnvs : x.o.how # "ok" \/ x.lo # "ok"}}

\* json.dumps of the mappings execute_tool returns in the model
json_dumps(result) ==
  CASE result = PyDict([a |-> PyInt(1)]) -> "{\"a\": 1}"
    [] result = PyDict([text |-> PyStr("done")]) -> "{\"text\": \"done\"}"
    [] result = PyDict([error |-> PyStr("No content received from tool")])
         -> "{\"error\": \"No content received from tool\"}"

\* str() of the values execute_tool returns in the model that are no mapping
str(result) == CASE result = PyList(<<PyStr("a")>>) -> "['a']"

\* the Connection when `await conn.cleanup()` follows the operation that
\* ended with r (mcp_tools.py 34 and 100, mcp_direct.py 61): an error of the
\* operation leaves before the cleanup
then_cleanup(r, out) ==
  IF r.raised # "none" THEN r.self ELSE cleanup(r.self, out).self

\* call_tool of tool_func (mcp_tools.py 101-103): json.dumps(result) for a
\* mapping, the result itself otherwise; e is how execute_tool ended
call_tool_return(e) ==
  IF e.raised # "none" THEN None
  ELSE IF isinstance(e.result[1], "dict") THEN Some(json_dumps(e.result[1]))
  ELSE e.result

\* execute_mcp_tool_async (mcp_direct.py 78-81): json.dumps(result) for a
\* mapping, str(result) otherwise
execute_mcp_tool_async_return(e) ==
  IF e.raised # "none" THEN None
  ELSE IF isinstance(e.result[1], "dict") THEN Some(json_dumps(e.result[1]))
  ELSE Some(str(e.result[1]))

\* the bot, line 213: json.dumps({"error": f"Failed to execute {name}: {e}"});
\* the kind of the error stands for its message
error_output(function_name, raised) ==
  "{\"error\": \"Failed to execute " \o function_name \o ": " \o raised \o "\"}"

\* The bot, lines 205-213 and 219-220: the output of execute_mcp_tool_async.
\* When it raised, the handler at 210 logs traceback.format_exc() (212);
\* `traceback` is a local name of on_message_activity that only the import
\* at line 220 binds, so unless line 220 has run earlier in the turn
\* (traceback is TRUE) line 212 raises UnboundLocalError, which line 219
\* catches, and no output is assigned; otherwise line 213 assigns the error
\* output.
direct_output(function_name, e, traceback) ==
  IF e.raised = "none" THEN execute_mcp_tool_async_return(e)
  ELSE IF traceback THEN Some(error_output(function_name, e.raised))
  ELSE None

\* ------------------------------------------------------------ discovery
\* mutant: tool_func reads the loop variable when it is called
make_func_binds_late(tools, i) ==
  [__name__ |-> tools[i].name, name |-> tools[Len(tools)].name]

\* make_func(name=tool_name) for the i-th tool (mcp_tools.py 55-111): the
\* default value of `name` is taken when make_func is defined, in the i-th
\* pass of the loop; tool_func executes `name` and carries it as __name__
make_func(tools, i) == [__name__ |-> tools[i].name, name |-> tools[i].name]

\* mutant: fetch_tools is run outside a try block
create_mcp_functions_without_except(l) ==
  IF l.raised = "none"
  THEN [raised |-> "none", logged |-> "none",
        mcp_tool_names |-> [i \in 1..Len(l.result[1]) |-> l.result[1][i].name],
        mcp_functions |-> [i \in 1..Len(l.result[1]) |-> make_func(l.result[1], i)]]
  ELSE [raised |-> l.raised, logged |-> "none",
        mcp_tool_names |-> <<>>, mcp_functions |-> <<>>]

\* mutant: the names are not reset before fetching, so those of the previous
\* discovery are kept when fetching fails
create_mcp_functions_keeps_names(l) ==
  LET tools == IF l.raised = "none" THEN l.result[1] ELSE <<>> IN
  [raised |-> "none", logged |-> l.raised,
   mcp_tool_names |-> IF l.raised = "none"
                      THEN [i \in 1..Len(tools) |-> tools[i].name]
                      ELSE mcp_tool_names,
   mcp_functions |-> [i \in 1..Len(tools) |-> make_func(tools, i)]]

\* create_mcp_functions() (mcp_tools.py 37-113) once fetch_tools ended as
\* l, the outcome of its list_tools: the names are reset to [] (38), set to
\* the names of the fetched tools (42), an Exception is logged and leaves
\* tools = [] (44-46); one callable per tool, in order (54-111)
create_mcp_functions(l) ==
  LET tools == IF l.raised = "none" THEN l.result[1] ELSE <<>> IN
  [raised |-> "none", logged |-> l.raised,
   mcp_tool_names |-> [i \in 1..Len(tools) |-> tools[i].name],
   mcp_functions |-> [i \in 1..Len(tools) |-> make_func(tools, i)]]

\* is_mcp_function(name) (mcp_tools.py 115-125)
is_mcp_function(name) ==
  \E i \in 1..Len(mcp_tool_names) : mcp_tool_names[i] = name

\* the tool names of the calls the model makes
FunctionNames == {"upload_blob", "list_blobs", "unknown_tool"}

\* the variables of the Connection an invocation constructed, once the
\* invocation has ended; r is how its list_tools or execute_tool ended
Invoked(self, r) ==
  /\ session' = self.session
  /\ exit_stack' = self.exit_stack
  /\ tools_cache' = self.tools_cache
  /\ connected' = self.connected
  /\ list_requests' = IF r.raised = "none" THEN 0 ELSE Len(r.requests)
  /\ list_answers' = IF r.raised = "none" THEN 0 ELSE Count(r.requests, "ok")
  /\ first_listing' = IF r.raised = "none" THEN None ELSE self.tools_cache
  /\ UNCHANGED catalogue

\* the run requires a tool call: tool_call.function.name and the decoded
\* tool_call.function.arguments (the bot, lines 163-165)
ToolCall ==
  /\ \E function_name \in FunctionNames, arguments \in Bundles :
       last' = [Observation EXCEPT !.op = "tool_call",
                  !.args = Some([function_name |-> function_name,
                                 arguments |-> arguments])]
  /\ UNCHANGED <<session, exit_stack, tools_cache, connected, catalogue,
                 list_requests, list_answers, first_listing, discovered, locking, bot>>

\* The bot routes the pending tool call to the Direct Executor (the bot,
\* lines 189-220; traceback: an earlier call of the turn has failed): the upload_blob handling, then execute_mcp_tool_async,
\* which normalizes the arguments, constructs a Connection and awaits
\* connect, execute_tool and cleanup on it (mcp_direct.py 37-64, 78-81).
DirectCall ==
  /\ last.op = "tool_call"
  /\ is_mcp_function(last.args[1].function_name)
  /\ \E env \in InvocationEnvs, traceback \in BOOLEAN :
     \E passed \in {upload_blob_content(last.args[1].function_name,
                                        last.args[1].arguments)} :
     \E args_to_use \in {direct_args_to_use(passed)} :
     \E c \in {connect(Fresh, env.o, env.out, env.out)} :
     \E e \in {execute_tool(c.self, catalogue, env.lo,
                            last.args[1].function_name, DefaultRetries,
                            DefaultRetryDelay, env.answers)} :
     \E output \in {direct_output(last.args[1].function_name, e, traceback)} :
       /\ Invoked(then_cleanup(e, env.out), e)
       /\ last' = [Observation EXCEPT !.op = "direct",
                     !.raised = "none", !.logged = e.raised,
                     !.result = e.result, !.args = last.args,
                     !.requests = e.requests, !.calls = e.calls,
                     !.passed = Some(passed),
                     !.dispatched = Some(args_to_use), !.payload = output]
  /\ UNCHANGED <<discovered, locking, bot>>

\* The pending tool call is executed by the callable that carries its name:
\* functions.execute(tool_call) calls tool_func(**arguments), which
\* normalizes the arguments and runs call_tool for the name it was made
\* with (mcp_tools.py 60-105).
AdapterCall ==
  /\ last.op = "tool_call"
  /\ \E i \in 1..Len(mcp_functions), env \in InvocationEnvs :
     \E tool_func \in {mcp_functions[i]} :
     \E args_to_use \in {tool_func_args_to_use(last.args[1].arguments)} :
     \E c \in {connect(Fresh, env.o, env.out, env.out)} :
     \E e \in {execute_tool(c.self, catalogue, env.lo, tool_func.name,
                            DefaultRetries, DefaultRetryDelay, env.answers)} :
       /\ tool_func.__name__ = last.args[1].function_name
       /\ Invoked(then_cleanup(e, env.out), e)
       /\ last' = [Observation EXCEPT !.op = "tool_func", !.raised = e.raised,
                     !.result = e.result, !.args = last.args,
                     !.requests = e.requests, !.calls = e.calls,
                     !.executed = tool_func.name,
                     !.passed = Some(last.args[1].arguments),
                     !.dispatched = Some(args_to_use),
                     !.payload = call_tool_return(e)]
  /\ UNCHANGED <<discovered, locking, bot>>

\* mcp_functions = create_mcp_functions() (mcp_tools.py 19-113; the bot,
\* line 38): the names are reset, fetch_tools connects, lists and cleans up,
\* an Exception of it is logged and leaves no tools, and one callable is made
\* per tool.
CreateMcpFunctions ==
  /\ \E env \in DiscoveryEnvs :
     \E c \in {connect(Fresh, env.o, env.out, env.out)} :
     \E l \in {list_tools(c.self, catalogue, env.lo)} :
     \E r \in {create_mcp_functions(l)} :
       /\ Invoked(then_cleanup(l, env.out), l)
       /\ mcp_tool_names' = r.mcp_tool_names
       /\ mcp_functions' = r.mcp_functions
       /\ last' = [Observation EXCEPT !.op = "create_mcp_functions",
                     !.raised = r.raised, !.result = Some(r.mcp_functions),
                     !.args = Some(env), !.requests = l.requests,
                     !.logged = r.logged]
  /\ UNCHANGED <<locking, bot>>

\* the server's set of tools changes between two runs
ServerChangeBetweenRuns == last.op # "tool_call" /\ ServerChange

NextInvoke ==
  \/ ToolCall
  \/ DirectCall
  \/ AdapterCall
  \/ CreateMcpFunctions
  \/ ServerChangeBetweenRuns

SpecInvoke == Init /\ [][NextInvoke]_vars

\* ------------------------------------------------- claims on invocations
\* the string in the kwargs field of the arguments b is a JSON document
DecodesKwargs(b) ==
  /\ Has(b, "kwargs")
  /\ isinstance(b.v["kwargs"], "str")
  /\ json_loads_arguments(b.v["kwargs"].v).ok

\* the value that string decodes to
DecodedKwargs(b) == json_loads_arguments(b.v["kwargs"].v).value

\* a mapping with a string kwargs field
HasStringKwargs(x) ==
  /\ isinstance(x, "dict")
  /\ Has(x, "kwargs")
  /\ isinstance(x.v["kwargs"], "str")

\* the rules for the empty string, for a string that is no JSON and for
\* arguments without a kwargs field, between the arguments b a path received
\* and the arguments d it handed to execute_tool
PlainRules(b, d) ==
  /\ ~Has(b, "kwargs") => d = b
  /\ (HasStringKwargs(b) /\ b.v["kwargs"].v = "") => d = PyDict(<<>>)
  /\ (HasStringKwargs(b) /\ b.v["kwargs"].v # "" /\ ~DecodesKwargs(b))
     => d = PyDict([value |-> b.v["kwargs"]])

\* C15 (as stated): the adapter callable and the Direct Executor hand to
\* execute_tool the empty mapping for {kwargs: ""}, the decoded value for a
\* kwargs string that is JSON, {value: string} for a non-empty kwargs string
\* that is no JSON, and the arguments themselves when they have no kwargs field.
C15_NormalizationRules ==
  last.op \in {"direct", "tool_func"}
  => /\ PlainRules(last.passed[1], last.dispatched[1])
     /\ DecodesKwargs(last.passed[1])
        => last.dispatched[1] = DecodedKwargs(last.passed[1])

\* C15 (amended): as stated, except that the adapter callable hands on the
\* decoded value only when it is no mapping with a string kwargs field.
C15_NormalizationRulesButNested ==
  last.op \in {"direct", "tool_func"}
  => /\ PlainRules(last.passed[1], last.dispatched[1])
     /\ (/\ DecodesKwargs(last.passed[1])
         /\ last.op = "tool_func" => ~HasStringKwargs(DecodedKwargs(last.passed[1])))
        => last.dispatched[1] = DecodedKwargs(last.passed[1])

C15_Witness ==
  /\ last.op = "tool_func"
  /\ last.passed = Some(PyDict([kwargs |-> PyStr(text_a)]))
  /\ last.dispatched = Some(PyDict([a |-> PyInt(1)]))

\* C16 (as stated): the Direct Executor hands to execute_tool the arguments
\* the adapter callable hands to it for the same arguments received.
C16_DirectAgreesWithAdapter ==
  last.op = "direct"
  => last.dispatched[1] = tool_func_args_to_use(last.passed[1])

\* the first decoding step of the adapter callable gave a mapping with a
\* string kwargs field
NestedKwargs ==
  /\ last.op = "tool_func"
  /\ DecodesKwargs(last.passed[1])
  /\ HasStringKwargs(DecodedKwargs(last.passed[1]))

\* C17 (as stated): the adapter callable applies the three rules once more to
\* the string kwargs field of the mapping its first decoding step gave: the
\* empty mapping, the decoded value without a further level, and
\* {value: string} for a string that is no JSON.
C17_SecondLevelRules ==
  NestedKwargs
  => /\ DecodedKwargs(last.passed[1]).v["kwargs"].v = ""
        => last.dispatched[1] = PyDict(<<>>)
     /\ DecodesKwargs(DecodedKwargs(last.passed[1]))
        => last.dispatched[1] = DecodedKwargs(DecodedKwargs(last.passed[1]))
     /\ (/\ DecodedKwargs(last.passed[1]).v["kwargs"].v # ""
         /\ ~DecodesKwargs(DecodedKwargs(last.passed[1])))
        => last.dispatched[1]
             = PyDict([value |-> DecodedKwargs(last.passed[1]).v["kwargs"]])

\* C17 (amended): as stated, except that a nested string that is no JSON
\* leaves the mapping of the first decoding step as it is.
C17_SecondLevelKeepsMalformed ==
  NestedKwargs
  => /\ DecodedKwargs(last.passed[1]).v["kwargs"].v = ""
        => last.dispatched[1] = PyDict(<<>>)
     /\ DecodesKwargs(DecodedKwargs(last.passed[1]))
        => last.dispatched[1] = DecodedKwargs(DecodedKwargs(last.passed[1]))
     /\ (/\ DecodedKwargs(last.passed[1]).v["kwargs"].v # ""
         /\ ~DecodesKwargs(DecodedKwargs(last.passed[1])))
        => last.dispatched[1] = DecodedKwargs(last.passed[1])

C17_Witness ==
  /\ last.op = "tool_func"
  /\ last.passed = Some(PyDict([kwargs |-> PyStr(text_kwargs_malformed)]))
  /\ last.dispatched = Some(PyDict([kwargs |-> PyStr("not-json")]))

\* the bundle b carries the field key, flat or inside its kwargs string
Carries(b, key) ==
  \/ Has(b, key)
  \/ DecodesKwargs(b) /\ isinstance(DecodedKwargs(b), "dict")
       /\ Has(DecodedKwargs(b), key)

\* the value of that field
Carried(b, key) == IF Has(b, key) THEN b.v[key] ELSE DecodedKwargs(b).v[key]

\* C18 (as stated): for upload_blob on the direct path, when the bundle
\* carries a text or value field, flat or inside its kwargs string, the
\* arguments handed to execute_tool have a content field: the content of the
\* bundle when it has one, else its text, else its value.
C18_UploadBlobGetsContent ==
  (/\ last.op = "direct"
   /\ last.args[1].function_name = "upload_blob"
   /\ Carries(last.args[1].arguments, "text")
        \/ Carries(last.args[1].arguments, "value"))
  => /\ isinstance(last.dispatched[1], "dict")
     /\ Has(last.dispatched[1], "content")
     /\ last.dispatched[1].v["content"]
          = IF Carries(last.args[1].arguments, "content")
            THEN Carried(last.args[1].arguments, "content")
            ELSE IF Carries(last.args[1].arguments, "text")
            THEN Carried(last.args[1].arguments, "text")
            ELSE Carried(last.args[1].arguments, "value")

\* the JSON document of a value execute_tool returns in the model
JsonEncoded(result) ==
  IF isinstance(result, "dict") THEN json_dumps(result) ELSE "[\"a\"]"

\* the error outputs of the bot for a tool name
ErrorOutputs(function_name) ==
  {error_output(function_name, raised) :
     raised \in {"not_connected", "list_failed", "tool_not_found",
                 "execution_failed"}}

\* C19 (as stated): whatever connect, the list request and the tool calls
\* do, the direct path raises nothing and gives a string: the JSON document
\* of the result of execute_tool, or a JSON document with an error field.
C19_DirectPathGivesJson ==
  last.op = "direct"
  => /\ last.raised = "none"
     /\ last.payload # None
     /\ last.result # None => last.payload[1] = JsonEncoded(last.result[1])
     /\ last.result = None
        => last.payload[1] \in ErrorOutputs(last.args[1].function_name)

\* C20 (as stated): when an invocation of the adapter callable, of the Direct
\* Executor or of the discovery step has ended, its Connection is cleaned up:
\* not connected, no session, nothing on the exit stack.
C20_InvocationCleansUp ==
  last.op \in {"direct", "tool_func", "create_mcp_functions"}
  => (~connected /\ session = None /\ exit_stack = <<>>)

\* ------------------------------------- further claims on the Connection
\* C26: connect() returns True exactly when the transport, the session and
\* initialize() all completed in time, and then connected is true with a
\* session; a connect() in which a step failed or timed out never turns
\* connected from false to true.
C26_ConnectedOnlyOnFullSuccess ==
  [][last'.op = "connect"
       => /\ last'.result = Some(TRUE) <=> last'.args[1].how = "ok"
          /\ last'.result = Some(TRUE) => (connected' /\ session' # None)
          /\ last'.args[1].how # "ok" => (connected' => connected)]_vars

C26_Witness ==
  /\ last.op = "connect"
  /\ last.args[1] = [at |-> "initialize", how |-> "timeout"]
  /\ last.result = Some(FALSE)
  /\ ~connected
  /\ exit_stack = <<>>

\* C27 (as stated): list_tools() and execute_tool() leave a populated cache as
\* it is, and the first list_tools() after a cleanup() followed by a
\* successful connect() sends a list request.
C27_CacheOnlyClearedByCleanup ==
  [][/\ (tools_cache # None /\ last'.op \in {"list_tools", "execute_tool"})
        => tools_cache' = tools_cache
     /\ (/\ last.op = "connect"
         /\ last.result = Some(TRUE)
         /\ list_requests = 0
         /\ last'.op = "list_tools")
        => last'.requests # <<>>]_vars

\* C29 (as stated): within one execute_tool call every call_tool request but
\* the last one was a request that call_tool itself raised for.
C29_AnsweredRequestNotResent ==
  ExecutedKnownTool
  => \A i \in 1..(last.calls - 1) : last.script[i].kind = "raise"

\* C30 (as stated): execute_tool on a connected Connection for a known tool
\* sends at least one call_tool request and returns a value or raises,
\* whatever the integer retries is.
C30_ExecuteToolNeverReturnsNothing ==
  ExecutedKnownTool
  => /\ last.calls >= 1
     /\ last.raised # "none" \/ last.result # None

\* --------------------------------------------------- claims on discovery
\* the discovery that has just ended fetched the listing of the server
Fetched(obs) ==
  /\ obs.op = "create_mcp_functions"
  /\ obs.args[1].o.how = "ok"
  /\ obs.args[1].lo = "ok"

\* the discovery that has just ended failed: connect returned False, or the
\* list request raised
FetchFailed(obs) == obs.op = "create_mcp_functions" /\ ~Fetched(obs)

\* C21: is_mcp_function(name) is false for every name before any discovery;
\* a discovery makes it true exactly for the names of the tools it fetched
\* (for no name when it failed), whatever it was true for before; no other
\* operation changes it.
C21_MembershipFollowsLastDiscovery ==
  /\ \A n \in FunctionNames : ~is_mcp_function(n)
  /\ [][/\ Fetched(last')
           => \A n \in FunctionNames :
                is_mcp_function(n)' <=> n \in Names(catalogue)
        /\ FetchFailed(last')
           => \A n \in FunctionNames : ~is_mcp_function(n)'
        /\ last'.op # "create_mcp_functions"
           => mcp_tool_names' = mcp_tool_names]_vars

C21_Witness ==
  /\ FetchFailed(last)
  /\ "upload_blob" \in Names(catalogue)
  /\ ~is_mcp_function("upload_blob")
  /\ ~is_mcp_function("list_blobs")

\* C22: when discovery fails (connect returns False, or the list request
\* raises), create_mcp_functions raises nothing, returns an empty list of
\* callables and leaves the tool names empty.
C22_DiscoveryFailureGivesNoTools ==
  FetchFailed(last)
  => /\ last.raised = "none"
     /\ last.result = Some(<<>>)
     /\ mcp_tool_names = <<>>
     /\ mcp_functions = <<>>

C22_Witness ==
  /\ FetchFailed(last)
  /\ last.args[1].o.how = "ok"
  /\ last.logged = "list_failed"
  /\ last.raised = "none"
  /\ last.result = Some(<<>>)
  /\ connected

\* C23: create_mcp_functions returns one callable per fetched tool, in the
\* order of the listing, the i-th carrying the i-th tool's name; a callable
\* that is invoked executes the tool whose name it carries.
C23_OneCallablePerTool ==
  /\ Fetched(last)
     => /\ last.result = Some(mcp_functions)
        /\ Len(mcp_functions) = Len(catalogue)
        /\ \A i \in 1..Len(catalogue) :
             mcp_functions[i].__name__ = catalogue[i].name
  /\ last.op = "tool_func" => last.executed = last.args[1].function_name

C23_Witness ==
  /\ last.op = "tool_func"
  /\ Len(mcp_functions) = 2
  /\ last.args[1].function_name = "upload_blob"
  /\ last.executed = "upload_blob"
  /\ mcp_functions[2].__name__ = "list_blobs"
  /\ last.calls = 1

\* ---------------------------------------------- Tool.validate_arguments
\* the parameter names and the values of the model; a float is written by
\* its literal
ParamNames == {"content", "n"}
ParamValues ==
  {PyStr("x"), PyInt(3), PyFloat("1.5"), PyBool(TRUE), PyList(<<>>),
   PyDict(<<>>), PyNone}

\* the type tags of a schema; "untyped" is a property without a "type" key
TypeTags == {"string", "number", "integer", "boolean", "array", "object"}

\* input_schema: `required` is a list of names, `properties` maps some of the
\* names to their type tag (client.py 309-310)
RequiredLists ==
  {<<>>} \cup {<<p>> : p \in ParamNames}
         \cup {<<p, q>> : p \in ParamNames, q \in ParamNames}
PropertyMaps ==
  UNION {[S -> TypeTags \cup {"untyped"}] : S \in SUBSET ParamNames}
InputSchemas == [required : RequiredLists, properties : PropertyMaps]

\* arguments: a dict in its insertion order, as the list of its items
ArgumentItems ==
  {<<>>} \cup {<<[name |-> p, value |-> v]>> : p \in ParamNames, v \in ParamValues}
         \cup {items \in {<<[name |-> p, value |-> v], [name |-> q, value |-> w]>> :
                             p \in ParamNames, q \in ParamNames,
                             v \in ParamValues, w \in ParamValues} :
                  items[1].name # items[2].name}

\* param in arguments
InArguments(param, arguments) ==
  \E i \in 1..Len(arguments) : arguments[i].name = param

\* the first loop (client.py 335-337): the first name of required_params
\* that is not in arguments, or None
RECURSIVE first_missing(_, _)
first_missing(required_params, arguments) ==
  IF required_params = <<>> THEN None
  ELSE IF ~InArguments(Head(required_params), arguments)
       THEN Some(Head(required_params))
       ELSE first_missing(Tail(required_params), arguments)

\* the body of the second loop for one item (client.py 341-359): the message
\* of the branch taken, or None
type_error(properties, param_name, param_value) ==
  IF param_name \notin DOMAIN properties THEN None
  ELSE LET param_type == properties[param_name] IN
    IF param_type = "string" /\ ~isinstance(param_value, "str")
    THEN Some("Parameter '" \o param_name \o "' should be a string")
    ELSE IF param_type = "number"
            /\ ~(isinstance(param_value, "int") \/ isinstance(param_value, "float"))
    THEN Some("Parameter '" \o param_name \o "' should be a number")
    ELSE IF param_type = "integer" /\ ~isinstance(param_value, "int")
    THEN Some("Parameter '" \o param_name \o "' should be an integer")
    ELSE IF param_type = "boolean" /\ ~isinstance(param_value, "bool")
    THEN Some("Parameter '" \o param_name \o "' should be a boolean")
    ELSE IF param_type = "array" /\ ~isinstance(param_value, "list")
    THEN Some("Parameter '" \o param_name \o "' should be an array")
    ELSE IF param_type = "object" /\ ~isinstance(param_value, "dict")
    THEN Some("Parameter '" \o param_name \o "' should be an object")
    ELSE None

\* the second loop (client.py 340-359) over arguments.items()
RECURSIVE first_type_error(_, _)
first_type_error(properties, items) ==
  IF items = <<>> THEN None
  ELSE LET e == type_error(properties, Head(items).name, Head(items).value) IN
       IF e # None THEN e ELSE first_type_error(properties, Tail(items))

\* Tool.validate_arguments(arguments) (client.py 322-361): the pair
\* (is_valid, error_message)
validate_arguments(input_schema, arguments) ==
  LET missing == first_missing(input_schema.required, arguments) IN
  IF missing # None
  THEN <<FALSE, Some("Required parameter '" \o missing[1] \o "' is missing")>>
  ELSE LET e == first_type_error(input_schema.properties, arguments) IN
       IF e # None THEN <<FALSE, e>> ELSE <<TRUE, None>>

\* a Tool has been constructed and arguments are at hand
InitValidate ==
  /\ session = None
  /\ exit_stack = <<>>
  /\ tools_cache = None
  /\ connected = FALSE
  /\ catalogue = <<>>
  /\ list_requests = 0
  /\ list_answers = 0
  /\ first_listing = None
  /\ mcp_tool_names = <<>>
  /\ mcp_functions = <<>>
  /\ _cleanup_lock = Lock
  /\ tasks = [t \in Tasks |-> Task(0)]
  /\ bot = Bot
  /\ \E input_schema \in InputSchemas, arguments \in ArgumentItems :
       last = [Observation EXCEPT !.op = "Tool",
                 !.args = Some([input_schema |-> input_schema,
                                arguments |-> arguments])]

\* tool.validate_arguments(arguments)
ValidateArguments ==
  /\ last.op = "Tool"
  /\ last' = [last EXCEPT !.op = "validate_arguments",
                !.result = Some(validate_arguments(last.args[1].input_schema,
                                                   last.args[1].arguments))]
  /\ UNCHANGED <<session, exit_stack, tools_cache, connected, catalogue,
                 list_requests, list_answers, first_listing, discovered, locking, bot>>

NextValidate == ValidateArguments

SpecValidate == InitValidate /\ [][NextValidate]_vars

\* ------------------------------------------- claims on validate_arguments
\* the runtime kind of a value is the kind the type tag declares: an integer
\* is also a number, a boolean is neither
KindMatches(tag, value) ==
  CASE tag = "string" -> value.t = "str"
    [] tag = "number" -> value.t \in {"int", "float"}
    [] tag = "integer" -> value.t = "int"
    [] tag = "boolean" -> value.t = "bool"
    [] tag = "array" -> value.t = "list"
    [] tag = "object" -> value.t = "dict"
    [] OTHER -> TRUE

\* the expected kind as the message words it
KindWords(tag) ==
  CASE tag = "string" -> "a string"
    [] tag = "number" -> "a number"
    [] tag = "integer" -> "an integer"
    [] tag = "boolean" -> "a boolean"
    [] tag = "array" -> "an array"
    [] tag = "object" -> "an object"

\* the i-th item of the arguments is in the properties and its value
\* mismatches the declared tag
Mismatch(schema, arguments, i) ==
  /\ arguments[i].name \in DOMAIN schema.properties
  /\ ~KindMatches(schema.properties[arguments[i].name], arguments[i].value)

Mismatches(schema, arguments) ==
  {i \in 1..Len(arguments) : Mismatch(schema, arguments, i)}

\* the required names absent from the arguments, as positions in the list
Missing(schema, arguments) ==
  {i \in 1..Len(schema.required) : ~InArguments(schema.required[i], arguments)}

Min(S) == CHOOSE x \in S : \A y \in S : x <= y

Validated == last.op = "validate_arguments"

\* C24 (as stated): validate_arguments fails exactly when a required name is
\* absent or a present parameter mismatches its type; a missing required
\* parameter is reported first, the first one in schema order; otherwise the
\* message cites a mismatching parameter.
C24_FailsIffMissingOrMismatch ==
  Validated =>
    LET schema == last.args[1].input_schema
        arguments == last.args[1].arguments
        missing == Missing(schema, arguments)
        mismatches == Mismatches(schema, arguments)
        result == last.result[1]
    IN /\ result[1] <=> (missing = {} /\ mismatches = {})
       /\ result[1] => result[2] = None
       /\ missing # {}
          => result[2] = Some("Required parameter '"
                              \o schema.required[Min(missing)]
                              \o "' is missing")
       /\ (missing = {} /\ ~result[1])
          => \E i \in mismatches :
               result[2] = Some("Parameter '" \o arguments[i].name
                                \o "' should be "
                                \o KindWords(schema.properties[arguments[i].name]))

\* C25 (as stated): when no required name is absent, a present parameter
\* whose value's kind differs from the tag its property declares is rejected
\* with a message naming it and the expected kind (the first such parameter
\* in the order of the arguments); parameters without a property are not
\* checked.
C25_RejectsEveryMismatch ==
  Validated =>
    LET schema == last.args[1].input_schema
        arguments == last.args[1].arguments
        mismatches == Mismatches(schema, arguments)
        result == last.result[1]
    IN Missing(schema, arguments) = {}
       => /\ mismatches # {}
             => result = <<FALSE,
                           Some("Parameter '" \o arguments[Min(mismatches)].name
                                \o "' should be "
                                \o KindWords(schema.properties[
                                     arguments[Min(mismatches)].name]))>>
          /\ (\A i \in 1..Len(arguments) :
                arguments[i].name \notin DOMAIN schema.properties)
             => result = <<TRUE, None>>

\* ------------------------------------------- cleanup() calls of several tasks
\* mutant: the lock is taken without looking at it
acquire_without_waiting(lock, t) ==
  [lock |-> [lock EXCEPT !.locked = TRUE], acquired |-> TRUE]

\* `async with self._cleanup_lock` on entry (client.py 278), for task t: a
\* free lock that nobody waits for is taken at once; otherwise the task joins
\* the queue and is suspended
acquire(lock, t) ==
  IF ~lock.locked /\ lock.waiters = <<>>
  THEN [lock |-> [lock EXCEPT !.locked = TRUE], acquired |-> TRUE]
  ELSE [lock |-> [lock EXCEPT !.waiters = Append(@, t)], acquired |-> FALSE]

\* `async with self._cleanup_lock` on exit, also when the block raises: the
\* lock is free and its first waiter is woken
release(lock) == [lock EXCEPT !.locked = FALSE]

\* the Connections cleanup() is called on: a connected one, with or without
\* a listing, or one whose _connect has just failed at some step
ConnectionsToClean(cat) ==
  {[session |-> Some(ClientSession), exit_stack |-> <<sse_client, ClientSession>>,
    tools_cache |-> c, connected |-> TRUE] : c \in {None, Some(ToCache(cat))}}
  \cup {[Fresh EXCEPT !.exit_stack = entered(o)] :
          o \in {x \in ConnectOutcomes : x.how = "Exception"}}

\* Each task makes 0, 1 or 2 cleanup() calls: 2 is a connect() whose step
\* raised, with the cleanup of _connect (client.py 176) followed by the one
\* of connect (client.py 152).
InitCleanup ==
  /\ catalogue \in Catalogues
  /\ \E self \in ConnectionsToClean(catalogue) :
       /\ session = self.session
       /\ exit_stack = self.exit_stack
       /\ tools_cache = self.tools_cache
       /\ connected = self.connected
  /\ list_requests = 0
  /\ list_answers = 0
  /\ first_listing = None
  /\ last = Observation
  /\ mcp_tool_names = <<>>
  /\ mcp_functions = <<>>
  /\ _cleanup_lock = Lock
  /\ tasks \in [Tasks -> {Task(calls) : calls \in 0..2}]
  /\ bot = Bot

\* task t calls cleanup() and reaches the lock
CallCleanup(t) ==
  /\ tasks[t].pc = "ready"
  /\ tasks[t].calls > 0
  /\ \E a \in {acquire(_cleanup_lock, t)} :
       /\ _cleanup_lock' = a.lock
       /\ tasks' = [tasks EXCEPT ![t].made = @ + 1,
                      ![t].pc = IF a.acquired THEN "releasing" ELSE "waiting"]
  /\ UNCHANGED <<session, exit_stack, tools_cache, connected, catalogue,
                 list_requests, list_answers, first_listing, last, discovered, bot>>

\* the first waiter of the free lock resumes and takes it
Resume(t) ==
  /\ tasks[t].pc = "waiting"
  /\ ~_cleanup_lock.locked
  /\ _cleanup_lock.waiters # <<>>
  /\ Head(_cleanup_lock.waiters) = t
  /\ _cleanup_lock' = [locked |-> TRUE, waiters |-> Tail(_cleanup_lock.waiters)]
  /\ tasks' = [tasks EXCEPT ![t].pc = "releasing"]
  /\ UNCHANGED <<session, exit_stack, tools_cache, connected, catalogue,
                 list_requests, list_answers, first_listing, last, discovered, bot>>

\* task t is in the cleanup() that _connect issued, the first of the two
\* calls of a failing connect()
InConnect(t) == tasks[t].calls = 2 /\ tasks[t].made = 1

\* the cleanup() calls task t has left once a call of it ended with `raised`:
\* a CancelledError ends the task, unless it is the timeout of wait_for
\* cancelling _connect (client.py 143), which connect answers with its own
\* cleanup (client.py 146-148)
CallsLeft(t, raised) ==
  IF raised = "none" THEN {tasks[t].calls - 1}
  ELSE IF InConnect(t) THEN {0, 1} ELSE {0}

\* wait_for times out while the cleanup() of _connect waits for the lock:
\* the task leaves the queue and goes on with the cleanup of connect
Timeout(t) ==
  /\ tasks[t].pc = "waiting"
  /\ InConnect(t)
  /\ _cleanup_lock' =
       [_cleanup_lock EXCEPT !.waiters = SelectSeq(@, LAMBDA u : u # t)]
  /\ tasks' = [tasks EXCEPT ![t].pc = "ready", ![t].calls = 1]
  /\ UNCHANGED <<session, exit_stack, tools_cache, connected, catalogue,
                 list_requests, list_answers, first_listing, last, discovered, bot>>

\* The release of task t ends (client.py 279-287): aclose() has run the
\* callbacks, the fields are reset or the Exception is logged, and the lock
\* is given back.  A CancelledError passes through the except clause.
Release(t) ==
  /\ tasks[t].pc = "releasing"
  /\ \E out \in AcloseOutcomes :
     \E c \in {cleanup(Self, out)} :
     \E calls \in CallsLeft(t, c.raised) :
       /\ session' = c.self.session
       /\ exit_stack' = c.self.exit_stack
       /\ tools_cache' = c.self.tools_cache
       /\ connected' = c.self.connected
       /\ tasks' = [tasks EXCEPT ![t].pc = "ready", ![t].calls = calls]
       /\ last' = [Observation EXCEPT !.op = "cleanup", !.raised = c.raised,
                     !.teardown = <<c.log>>]
  /\ _cleanup_lock' = release(_cleanup_lock)
  /\ list_requests' = 0
  /\ list_answers' = 0
  /\ first_listing' = None
  /\ UNCHANGED <<catalogue, discovered, bot>>

NextCleanup ==
  \E t \in Tasks : CallCleanup(t) \/ Resume(t) \/ Timeout(t) \/ Release(t)

\* The event loop runs every task that can run, and every context exit
\* comes to an end; a timeout need not happen.
SpecCleanup ==
  /\ InitCleanup
  /\ [][NextCleanup]_vars
  /\ \A t \in Tasks : WF_vars(CallCleanup(t) \/ Resume(t) \/ Release(t))

\* ----------------------------------------- claims on concurrent cleanup()
Releasing == {t \in Tasks : tasks[t].pc = "releasing"}

\* every task has made its calls and every call has returned or raised
AllReturned == \A t \in Tasks : tasks[t].pc = "ready" /\ tasks[t].calls = 0

\* the cleanup() calls made so far
CallsMade == SumSeq([t \in Tasks |-> tasks[t].made])

\* C28: with the cleanup() calls of several tasks interleaved (and the two
\* consecutive calls of a failed connect), at most one task is inside the
\* release section at any time, every call eventually returns, and once two
\* or more calls have been made and all have returned the Connection has no
\* session, no cache and is not connected.
C28_CleanupCallsAreSerialized ==
  /\ [](Cardinality(Releasing) <= 1)
  /\ <>AllReturned
  /\ []((AllReturned /\ CallsMade >= 2)
          => (session = None /\ tools_cache = None /\ ~connected))

C28_Witness ==
  /\ \E t \in Tasks, u \in Tasks :
       /\ tasks[t].pc = "releasing"
       /\ tasks[u].pc = "waiting"
       /\ tasks[u].calls = 2
  /\ exit_stack # <<>>
  /\ connected

\* ------------------------------------------ claims on dispatched arguments
\* C31 (as stated): the arguments an adapter callable or the Direct Executor
\* hands to execute_tool are a mapping, whatever the bundle was.
C31_DispatchedIsMapping ==
  last.op \in {"direct", "tool_func"}
  => isinstance(last.dispatched[1], "dict")

\* ----------------------------------------------------------------- the bot
\* turn_context.activity.text of the messages a user sends; a message may
\* carry no text
MessageTexts == {None, Some("Ann"), Some("hello")}

\* mutant: the message that gives the name is forwarded to the agent as well
on_message_activity_forwards_name(name, prompted_for_user_name, text) ==
  IF name = None /\ ~prompted_for_user_name
  THEN [name |-> name, prompted_for_user_name |-> TRUE,
        reply |-> "prompt", forwarded |-> FALSE]
  ELSE [name |-> IF name = None THEN text ELSE name,
        prompted_for_user_name |-> FALSE,
        reply |-> "none", forwarded |-> TRUE]

\* on_message_activity up to the creation of the run (the bot, 83-132): the
\* new name and flag, the activity sent to the user, and whether a message
\* and a run were created for the agent
on_message_activity(name, prompted_for_user_name, text) ==
  IF name = None
  THEN IF prompted_for_user_name
       THEN [name |-> text, prompted_for_user_name |-> FALSE,
             reply |-> "thanks", forwarded |-> FALSE]
       ELSE [name |-> name, prompted_for_user_name |-> TRUE,
             reply |-> "prompt", forwarded |-> FALSE]
  ELSE [name |-> name, prompted_for_user_name |-> prompted_for_user_name,
        reply |-> "none", forwarded |-> TRUE]

\* the required tool calls of a run: tool_call.function.name and
\* tool_call.function.arguments, a JSON text that may be empty or malformed;
\* tool_call.id is the position in the batch
BotFunctionNames == {"upload_blob", "unknown_tool"}
ArgumentsJson == {"", text_a, "{"}
MaxBatch == 2
ToolCalls == [name : BotFunctionNames, arguments : ArgumentsJson]

\* What happens while one tool call is executed: the transport and the
\* server during a direct execution (connect succeeds and the tool answers
\* "done", or connect fails), and what FunctionTool.execute does with a name
\* it has no callable for (returns a text, or raises).
BotEnvs ==
  {[o |-> [at |-> "done", how |-> "ok"], out |-> "none", lo |-> "ok",
    answers |-> Script(0, [kind |-> "content", text |-> "done"]),
    fallback |-> "returns"],
   [o |-> [at |-> "transport", how |-> "Exception"], out |-> "none",
    lo |-> "ok", answers |-> Script(0, [kind |-> "raise", text |-> ""]),
    fallback |-> "raises"]}

\* arguments = json.loads(args_json) if args_json else {} (the bot, 165)
loads_arguments(args_json) ==
  IF args_json = "" THEN [ok |-> TRUE, value |-> PyDict(<<>>)]
  ELSE json_loads_arguments(args_json)

\* mutant: every call goes to the Direct Executor
route_always_direct(function_name) == "direct"

\* the bot, 189 and 214: the path a tool call takes
route(function_name) ==
  IF is_mcp_function(function_name) THEN "direct" ELSE "fallback"

\* The bot, 189-224, for one tool call on the path `path`: the text assigned
\* to `output` (None when no assignment is reached), whether the handler of
\* line 219 ran, and the Connection a direct execution used.
execute_tool_call(path, function_name, arguments, env, traceback) ==
  IF path = "direct"
  THEN LET passed == upload_blob_content(function_name, arguments)
           c == connect(Fresh, env.o, env.out, env.out)
           e == execute_tool(c.self, catalogue, env.lo, function_name,
                             DefaultRetries, DefaultRetryDelay, env.answers)
           output == direct_output(function_name, e, traceback)
       IN [assigned |-> output, handled |-> output = None,
           conn |-> Some([self |-> then_cleanup(e, env.out), r |-> e])]
  ELSE [assigned |-> IF env.fallback = "returns"
                     THEN Some("fallback output") ELSE None,
        handled |-> env.fallback = "raises", conn |-> None]

\* The body of the loop over tool_calls for one call (the bot, 160-237).
\* loc holds the local names output (with the id of the call whose execution
\* assigned it) and traceback, the tool_outputs so far and the paths taken.
\* A JSONDecodeError at 165 and an unbound `output` at 230 end in the handler
\* of line 235, which appends nothing.
handle_tool_call(loc, id, tool_call, env) ==
  IF ~loads_arguments(tool_call.arguments).ok
  THEN [loc EXCEPT !.routes = Append(@, "none")]
  ELSE LET x == CHOOSE r \in {execute_tool_call(
                                route(tool_call.name), tool_call.name,
                                loads_arguments(tool_call.arguments).value,
                                env, loc.traceback)} : TRUE
           output == IF x.assigned = None THEN loc.output
                     ELSE Some([value |-> x.assigned[1], produced_by |-> id])
       IN [output |-> output,
           traceback |-> loc.traceback \/ x.handled,
           tool_outputs |->
             IF output = None THEN loc.tool_outputs
             ELSE Append(loc.tool_outputs,
                         [tool_call_id |-> id, output |-> output[1].value,
                          produced_by |-> output[1].produced_by]),
           routes |-> Append(loc.routes, route(tool_call.name)),
           conn |-> IF x.conn = None THEN loc.conn ELSE x.conn]

\* `output` at the start of a requires_action step: what an earlier step of
\* the turn left in it belongs to no call of this batch (produced_by 0)
carried_over(output) ==
  IF output = None THEN None
  ELSE Some([output[1] EXCEPT !.produced_by = 0])

\* the bot module is imported: mcp_functions = create_mcp_functions() (38)
Import ==
  /\ bot.pc = "import"
  /\ \E env \in DiscoveryEnvs :
     \E c \in {connect(Fresh, env.o, env.out, env.out)} :
     \E l \in {list_tools(c.self, catalogue, env.lo)} :
     \E r \in {create_mcp_functions(l)} :
       /\ Invoked(then_cleanup(l, env.out), l)
       /\ mcp_tool_names' = r.mcp_tool_names
       /\ mcp_functions' = r.mcp_functions
       /\ last' = [Observation EXCEPT !.op = "import",
                     !.result = Some(r.mcp_functions), !.logged = r.logged]
  /\ bot' = [bot EXCEPT !.pc = "idle"]
  /\ UNCHANGED locking

\* A message arrives (the bot, 75-132): the name prompt, the name, or a
\* message and a run for the agent, with which the polling loop starts.
OnMessage ==
  /\ bot.pc = "idle"
  /\ \E text \in MessageTexts :
     \E m \in {on_message_activity(bot.name, bot.prompted_for_user_name, text)} :
       /\ bot' = [bot EXCEPT !.name = m.name,
                    !.prompted_for_user_name = m.prompted_for_user_name,
                    !.thread = @ \/ m.forwarded,
                    !.pc = IF m.forwarded THEN "run" ELSE "idle"]
       /\ last' = [Observation EXCEPT !.op = "message", !.args = Some(text),
                     !.result = Some(m.reply), !.passed = Some(m.forwarded)]
  /\ UNCHANGED <<session, exit_stack, tools_cache, connected, catalogue,
                 list_requests, list_answers, first_listing, discovered, locking>>

\* get_run gives requires_action with function tool calls (the bot,
\* 139-158): the loop over tool_calls starts with an empty tool_outputs.
RequiresAction ==
  /\ bot.pc = "run"
  /\ bot' = [bot EXCEPT !.pc = "calls", !.output = carried_over(@),
               !.tool_calls = <<>>, !.tool_outputs = <<>>, !.routes = <<>>]
  /\ last' = [Observation EXCEPT !.op = "get_run"]
  /\ UNCHANGED <<session, exit_stack, tools_cache, connected, catalogue,
                 list_requests, list_answers, first_listing, discovered, locking>>

\* One iteration of the loop over tool_calls (the bot, 159-237).  The calls
\* of the batch are drawn as the loop reaches them, at most MaxBatch of them.
HandleToolCall ==
  /\ bot.pc = "calls"
  /\ Len(bot.tool_calls) < MaxBatch
  /\ \E tool_call \in ToolCalls, env \in BotEnvs :
     \E loc \in {handle_tool_call(
                   [output |-> bot.output, traceback |-> bot.traceback,
                    tool_outputs |-> bot.tool_outputs, routes |-> bot.routes,
                    conn |-> None],
                   Len(bot.tool_calls) + 1, tool_call, env)} :
       /\ bot' = [bot EXCEPT !.tool_calls = Append(@, tool_call),
                    !.output = loc.output, !.traceback = loc.traceback,
                    !.tool_outputs = loc.tool_outputs, !.routes = loc.routes]
       /\ IF loc.conn = None
          THEN UNCHANGED <<session, exit_stack, tools_cache, connected,
                           catalogue, list_requests, list_answers,
                           first_listing>>
          ELSE Invoked(loc.conn[1].self, loc.conn[1].r)
       /\ last' = [Observation EXCEPT !.op = "tool_call",
                     !.args = Some(tool_call)]
  /\ UNCHANGED <<discovered, locking>>

\* The loop over tool_calls is over (the bot, 240-248): the tool outputs, if
\* there are any, are submitted to the run, and the polling goes on.
SubmitToolOutputs ==
  /\ bot.pc = "calls"
  /\ bot.tool_calls # <<>>
  /\ bot' = [bot EXCEPT !.pc = "run", !.tool_calls = <<>>,
               !.tool_outputs = <<>>, !.routes = <<>>]
  /\ last' = [Observation EXCEPT !.op = "requires_action",
                !.args = Some(bot.tool_calls),
                !.result = Some(bot.tool_outputs),
                !.routes = bot.routes,
                !.submitted = IF bot.tool_outputs = <<>> THEN None
                              ELSE Some(bot.tool_outputs)]
  /\ UNCHANGED <<session, exit_stack, tools_cache, connected, catalogue,
                 list_requests, list_answers, first_listing, discovered, locking>>

\* The polling loop ends (the bot, 137, 150-155, 251-259): the run has left
\* the three polled states, or it required no tool call and was cancelled;
\* the answer is sent and the turn is over.
RunEnds ==
  /\ bot.pc = "run"
  /\ \E status \in {"completed", "failed", "cancelled"} :
       last' = [Observation EXCEPT !.op = status]
  /\ bot' = [bot EXCEPT !.pc = "idle", !.output = None, !.traceback = FALSE]
  /\ UNCHANGED <<session, exit_stack, tools_cache, connected, catalogue,
                 list_requests, list_answers, first_listing, discovered, locking>>

NextBot ==
  Import \/ OnMessage \/ RequiresAction \/ HandleToolCall
  \/ SubmitToolOutputs \/ RunEnds

SpecBot == Init /\ [][NextBot]_vars

\* ------------------------------------------------------- claims on the bot
\* the tool outputs of the requires_action step just taken
ToolOutputs == last.result[1]

\* C32: every tool output of a requires_action step carries the output that
\* executing the call of its tool_call_id produced; the output of another
\* call is never put under a call's id.
C32_OutputBelongsToItsCall ==
  last.op = "requires_action"
  => \A i \in DOMAIN ToolOutputs :
       ToolOutputs[i].produced_by = ToolOutputs[i].tool_call_id

\* C33: a requires_action step with k >= 1 function tool calls submits
\* exactly k tool outputs, one per call id in the order of the calls; no call
\* is left unanswered.
C33_OneOutputPerCall ==
  last.op = "requires_action"
  => /\ last.submitted = Some(ToolOutputs)
     /\ Len(ToolOutputs) = Len(last.args[1])
     /\ \A id \in DOMAIN last.args[1] : ToolOutputs[id].tool_call_id = id

\* a message was received in this step
MessageStep == bot.pc = "idle" /\ last'.op = "message"

\* the step created an agent message and a run
Forwarded == bot'.pc = "run" /\ bot'.thread /\ last'.passed = Some(TRUE)

\* C34: a message received while the profile has no name is never forwarded
\* to the agent. Without the flag it triggers the name prompt and sets the
\* flag; with the flag its text is stored as the name and the flag is
\* cleared; a message received while the profile has a name is forwarded and
\* changes neither name nor flag.
C34_NameBeforeAgent ==
  [][MessageStep =>
       /\ bot.name = None => ~Forwarded /\ bot'.pc = "idle"
                             /\ bot'.thread = bot.thread
       /\ (bot.name = None /\ ~bot.prompted_for_user_name)
            => /\ last'.result = Some("prompt")
               /\ bot'.prompted_for_user_name
               /\ bot'.name = None
       /\ (bot.name = None /\ bot.prompted_for_user_name)
            => /\ last'.result = Some("thanks")
               /\ bot'.name = last'.args[1]
               /\ ~bot'.prompted_for_user_name
       /\ bot.name # None
            => /\ Forwarded
               /\ bot'.name = bot.name
               /\ bot'.prompted_for_user_name = bot.prompted_for_user_name]_vars

\* C34 witness: the third message of a conversation was forwarded: the name
\* given by the second one is stored, the flag is cleared, a thread exists
\* and the run is being polled
C34_Witness ==
  /\ last.op = "message"
  /\ last.passed = Some(TRUE)
  /\ bot.name = Some("Ann")
  /\ ~bot.prompted_for_user_name
  /\ bot.thread
  /\ bot.pc = "run"

\* the i-th tool call of the requires_action step just taken had arguments
\* that line 165 could decode
Decoded(i) == loads_arguments(last.args[1][i].arguments).ok

====
